---- MODULE Spec2Model ----
(***************************************************************************)
(* libdns/linode: the Provider (provider.go) and its client helpers        *)
(* (client.go).  Two revisions of the sources are present: revision 1 is   *)
(* provider.go with client.go lines 1-120 (paged domain lookup), revision  *)
(* 2 is client.go lines 122-357 (filtered domain lookup).  The variable    *)
(* rev fixes which one a behaviour runs.                                   *)
(*                                                                         *)
(* Strings that the code takes apart (zone and record names, record IDs)   *)
(* are sequences of one-character strings; strings that are only passed    *)
(* through (Type, Value/Target) are TLA+ strings.                          *)
(***************************************************************************)
EXTENDS Integers, Sequences, FiniteSets, TLC

\* ------------------------------------------------------------------ bounds
\* Operations invoked in one behaviour (over all goroutines).
MaxOps == 2
\* Records the remote store creates in one behaviour (provider-assigned IDs).
MaxCreates == 1
\* Domains the remote API returns per page of ListDomains.
PageSize == 2

\* time.Second, in nanoseconds (time.Duration's unit).
Second == 1000000000

Procs == {1, 2}

\* --------------------------------------------------------- string helpers
\* strings.HasSuffix
HasSuffix(s, suffix) ==
    /\ Len(suffix) <= Len(s)
    /\ SubSeq(s, Len(s) - Len(suffix) + 1, Len(s)) = suffix

\* strings.TrimSuffix
TrimSuffix(s, suffix) ==
    IF HasSuffix(s, suffix) THEN SubSeq(s, 1, Len(s) - Len(suffix)) ELSE s

\* strings.Trim(s, "."): every leading and trailing "." removed.
RECURSIVE TrimDots(_)
TrimDots(s) ==
    IF s = <<>> THEN s
    ELSE IF Head(s) = "." THEN TrimDots(Tail(s))
    ELSE IF s[Len(s)] = "." THEN TrimDots(SubSeq(s, 1, Len(s) - 1))
    ELSE s

\* client.go:31
trimTrailingDot(fqdn) == TrimSuffix(fqdn, <<".">>)

\* libdns.RelativeName(fqdn, zone)
RelativeName(fqdn, zone) == TrimSuffix(TrimSuffix(fqdn, zone), <<".">>)

\* libdns.AbsoluteName(name, zone) as called with zone = "".
AbsoluteName(name, zone) ==
    IF zone = <<>> THEN TrimDots(name)
    ELSE IF name = <<>> \/ name = <<"@">> THEN zone
    ELSE IF HasSuffix(name, <<".">>) THEN name \o zone
    ELSE name \o <<".">> \o zone

DigitChars == <<"0", "1", "2", "3", "4", "5", "6", "7", "8", "9">>

IsDigit(c) == \E d \in 1..10 : DigitChars[d] = c

DigitVal(c) == (CHOOSE d \in 1..10 : DigitChars[d] = c) - 1

RECURSIVE UDigits(_)
UDigits(n) ==
    IF n < 10 THEN <<DigitChars[n + 1]>>
    ELSE UDigits(n \div 10) \o <<DigitChars[(n % 10) + 1]>>

\* strconv.Itoa
Itoa(n) == IF n < 0 THEN <<"-">> \o UDigits(-n) ELSE UDigits(n)

RECURSIVE UVal(_, _)
UVal(s, acc) ==
    IF s = <<>> THEN acc ELSE UVal(Tail(s), acc * 10 + DigitVal(Head(s)))

\* strconv.Atoi: an optional sign, then one or more decimal digits.
Atoi(s) ==
    LET signed == s # <<>> /\ Head(s) \in {"+", "-"}
        body == IF signed THEN Tail(s) ELSE s
        ok == body # <<>> /\ \A i \in 1..Len(body) : IsDigit(body[i])
    IN  IF ~ok THEN [ok |-> FALSE, val |-> 0]
        ELSE [ok |-> TRUE,
              val |-> IF signed /\ Head(s) = "-" THEN -UVal(body, 0)
                      ELSE UVal(body, 0)]

\* time.Duration.Seconds() converted with int(): truncation toward zero.
DurationSeconds(d) ==
    IF d >= 0 THEN d \div Second ELSE -((-d) \div Second)


\* ------------------------------------------------------------ data model
S_ab == <<"a", ".", "b">>
S_cd == <<"c", ".", "d">>
S_ef == <<"e", ".", "f">>
S_xy == <<"x", ".", "y">>
S_w == <<"w">>

\* The remote account's domains, in the order the API lists them.  The name
\* a.b is held twice, so that "first match" is observable, and first occurs
\* on the second page.
Domains ==
    << [ID |-> 10, Domain |-> S_cd], [ID |-> 11, Domain |-> S_ef],
       [ID |-> 42, Domain |-> S_ab], [ID |-> 43, Domain |-> S_ab] >>

DomainIDs == {Domains[i].ID : i \in 1..Len(Domains)}

\* Pages of ListDomains.
TotalPages == (Len(Domains) + PageSize - 1) \div PageSize

DomainsPage(page) ==
    SubSeq(Domains, (page - 1) * PageSize + 1,
           IF page * PageSize < Len(Domains) THEN page * PageSize ELSE Len(Domains))

\* Zone names callers pass: with and without the trailing dot, the last one
\* unknown to the remote account.
Zones == {S_ab \o <<".">>, S_cd, S_xy \o <<".">>}

\* libdns.Record{} (the zero value).
ZeroRecord == [ID |-> <<>>, Type |-> "", Name |-> <<>>, Value |-> "", TTL |-> 0]

\* Input records: one to create (no ID, a sub-second TTL part), one with a
\* numeric ID, one with an ID strconv.Atoi rejects.
rNew == [ID |-> <<>>, Type |-> "TXT", Name |-> S_w \o <<".">> \o S_ab,
         Value |-> "v1", TTL |-> Second + 500000000]
rOne == [ID |-> <<"0", "1">>, Type |-> "A", Name |-> S_w, Value |-> "v2",
         TTL |-> 2 * Second]
rBad == [ID |-> <<"x", "1">>, Type |-> "A", Name |-> S_w, Value |-> "v3",
         TTL |-> Second]

InputRecords == {rNew, rOne, rBad}

\* The record lists callers pass.
Batches == {<<rOne>>, <<rNew, rOne>>, <<rOne, rBad>>, <<rBad, rNew>>}

\* The remote record store at the start: domain 42 holds record 1.
InitialStore ==
    [d \in DomainIDs |->
        IF d = 42
        THEN << [ID |-> 1, Type |-> "A", Name |-> S_w, Target |-> "v0", TTLSec |-> 1] >>
        ELSE << >>]

\* The ID the remote store assigns to the first record it creates.
FirstFreeID == Len(InitialStore[42]) + 1

NoErr == ""
ErrListDomains == "could not list domains"
ErrDomainNotFound == "could not find the domain provided"
ErrListRecords == "could not list domain records"
ErrRemote == "remote call failed"
ErrAtoi == "strconv.Atoi: invalid syntax"

\* ------------------------------------------------------ record translator
\* client.go:110-120
mergeWithExistingLibdns(zone, existingRecord, remoteRecord) ==
    [existingRecord EXCEPT
        !.ID = Itoa(remoteRecord.ID),
        !.Type = remoteRecord.Type,
        !.Name = RelativeName(remoteRecord.Name, zone),
        !.Value = remoteRecord.Target,
        !.TTL = remoteRecord.TTLSec * Second]

\* client.go:106-108
convertToLibdns(zone, remoteRecord) ==
    mergeWithExistingLibdns(zone, ZeroRecord, remoteRecord)

\* linodego.DomainRecordCreateOptions / DomainRecordUpdateOptions as the code
\* fills them (client.go:69-74, 86-91).
RecordOptions(zone, record) ==
    [Type |-> record.Type,
     Name |-> RelativeName(record.Name, zone),
     Target |-> record.Value,
     TTLSec |-> DurationSeconds(record.TTL)]

\* GetRecords' p.appendRecord (provider.go:44).
appendRecord(zone, records, rec) == Append(records, convertToLibdns(zone, rec))

\* ------------------------------------------------------------ remote API
HasRecord(recs, id) == \E i \in 1..Len(recs) : recs[i].ID = id

RemoteRecord(id, opts) ==
    [ID |-> id, Type |-> opts.Type, Name |-> opts.Name, Target |-> opts.Target,
     TTLSec |-> opts.TTLSec]

\* The outcome of one record-level step: the store and ID counter after it,
\* the error, the record it yields and what it did (the call it issued).
Outcome(st, nid, err, rec, kind, id) ==
    [store |-> st, nextID |-> nid, err |-> err, rec |-> rec,
     call |-> [kind |-> kind, id |-> id, ok |-> err = NoErr]]

\* client.go:68-79 (revision 2: 196-207).  fail: the remote call errors.
createDomainRecord(st, nid, zone, domainID, record, fail) ==
    LET newRec == RemoteRecord(nid, RecordOptions(zone, record))
    IN  IF fail \/ nid >= FirstFreeID + MaxCreates
        THEN Outcome(st, nid, ErrRemote, ZeroRecord, "Create", 0)
        ELSE Outcome([st EXCEPT ![domainID] = Append(@, newRec)], nid + 1, NoErr,
                     convertToLibdns(zone, newRec), "Create", nid)

\* client.go:81-96 (revision 2: 209-224)
updateDomainRecord(st, nid, zone, domainID, record, fail) ==
    LET recordID == Atoi(record.ID)
        updatedRec == RemoteRecord(recordID.val, RecordOptions(zone, record))
    IN  IF ~recordID.ok
        THEN Outcome(st, nid, ErrAtoi, ZeroRecord, "ParseID", 0)
        ELSE IF fail \/ ~HasRecord(st[domainID], recordID.val)
        THEN Outcome(st, nid, ErrRemote, ZeroRecord, "Update", recordID.val)
        ELSE Outcome([st EXCEPT ![domainID] =
                         [i \in 1..Len(@) |->
                             IF @[i].ID = recordID.val THEN updatedRec ELSE @[i]]],
                     nid, NoErr, mergeWithExistingLibdns(zone, record, updatedRec),
                     "Update", recordID.val)

\* client.go:98-104 (revision 2: 226-232)
deleteDomainRecord(st, nid, domainID, record, fail) ==
    LET recordID == Atoi(record.ID)
    IN  IF ~recordID.ok
        THEN Outcome(st, nid, ErrAtoi, ZeroRecord, "ParseID", 0)
        ELSE IF fail \/ ~HasRecord(st[domainID], recordID.val)
        THEN Outcome(st, nid, ErrRemote, ZeroRecord, "Delete", recordID.val)
        ELSE Outcome([st EXCEPT ![domainID] =
                         SelectSeq(@, LAMBDA r : r.ID # recordID.val)],
                     nid, NoErr, record, "Delete", recordID.val)

\* client.go:181-194
createOrUpdateDomainRecord(st, nid, zone, domainID, record, fail) ==
    IF record.ID = <<>>
    THEN createDomainRecord(st, nid, zone, domainID, record, fail)
    ELSE updateDomainRecord(st, nid, zone, domainID, record, fail)

\* Mutant: the test of the ID is inverted.
SetRecordsIterInverted(st, nid, zone, domainID, record, fail) ==
    IF record.ID # <<>>
    THEN createDomainRecord(st, nid, zone, domainID, record, fail)
    ELSE updateDomainRecord(st, nid, zone, domainID, record, fail)

\* provider.go:89-106: one iteration of SetRecords' loop.
SetRecordsIter(st, nid, zone, domainID, record, fail) ==
    IF record.ID = <<>>
    THEN createDomainRecord(st, nid, zone, domainID, record, fail)
    ELSE updateDomainRecord(st, nid, zone, domainID, record, fail)

\* provider.go:123 and client.go:339: DeleteRecords' result list as made.
makeDeletedRecords(r, records) ==
    IF r = 1 THEN [i \in 1..Len(records) |-> ZeroRecord] ELSE << >>

\* client.go:44-48: the scan of one page of domains.
RECURSIVE scanDomains(_, _)
scanDomains(domains, name) ==
    IF domains = << >> THEN [found |-> FALSE, id |-> 0]
    ELSE IF Head(domains).Domain = name THEN [found |-> TRUE, id |-> Head(domains).ID]
    ELSE scanDomains(Tail(domains), name)

\* Mutant: the loop stops one page early.
LoopStopsEarly(page, pages) == page < pages

\* client.go:38: the loop condition, read after ListDomains has set
\* listOptions.Pages to the number of pages the API reports.
LoopContinues(page, pages) == page <= pages

\* client.go:151-158: ListDomains under the filter domain = AbsoluteName(zone, "").
FilteredDomains(zone) ==
    SelectSeq(Domains, LAMBDA d : d.Domain = AbsoluteName(zone, << >>))


\* ------------------------------------------------------------------ state
VARIABLES
    rev,          \* which revision of the sources runs (1 or 2)
    mutex,        \* Provider.mutex: 0 when free, else the goroutine holding it
    once,         \* Provider.once: "new", "running" or "done"
    clientInits,  \* how many times the once-function has built p.client
    store,        \* the remote record store: domain ID -> list of records
    nextID,       \* the ID the remote store assigns next
    pc,           \* each goroutine's position in its operation
    frame,        \* each goroutine's operation: arguments and locals
    ret,          \* the values of the return statement, before the deferred Unlock
    calls,        \* history: what the current operation has done so far
    callOrder,    \* history: the operations in the order of their remote calls
    opsStarted,   \* operations invoked so far
    rt            \* the translator round trip (its own specification)

vars == <<rev, mutex, once, clientInits, store, nextID, pc, frame, ret, calls,
          callOrder, opsStarted, rt>>

BatchKinds == {"AppendRecords", "SetRecords", "DeleteRecords"}

NoFrame ==
    [opNo |-> 0, kind |-> "", zone |-> << >>, records |-> << >>, idx |-> 0,
     domainID |-> 0, page |-> 0, pages |-> 0, out |-> << >>, store0 |-> << >>]

NoRet == [err |-> NoErr, isNil |-> TRUE, list |-> << >>]

RTOff == [stage |-> "off"]

RemoteKinds ==
    {"ListDomains", "ListDomainRecords", "Create", "Update", "Delete"}

RecordCallKinds == {"ListDomainRecords", "Create", "Update", "Delete"}

\* A history entry for goroutine p: what was done, for which input record,
\* and whether p held the mutex and the client was built at that moment.
Entry(p, idx, call) ==
    [kind |-> call.kind, id |-> call.id, ok |-> call.ok, idx |-> idx,
     locked |-> mutex = p, ready |-> once = "done"]

Logged(p, idx, call) ==
    /\ calls' = [calls EXCEPT ![p] = Append(@, Entry(p, idx, call))]
    /\ callOrder' =
          IF call.kind \in RemoteKinds
             /\ (callOrder = << >> \/ callOrder[Len(callOrder)] # frame[p].opNo)
          THEN Append(callOrder, frame[p].opNo)
          ELSE callOrder

\* return nil, err
ReturnErr(p, err) ==
    /\ ret' = [ret EXCEPT ![p] = [err |-> err, isNil |-> TRUE, list |-> << >>]]
    /\ pc' = [pc EXCEPT ![p] = "unlock"]

\* return list, nil
ReturnOk(p, list) ==
    /\ ret' = [ret EXCEPT ![p] = [err |-> NoErr, isNil |-> FALSE, list |-> list]]
    /\ pc' = [pc EXCEPT ![p] = "unlock"]

Init ==
    /\ rev \in {1, 2}
    /\ mutex = 0
    /\ once = "new"
    /\ clientInits = 0
    /\ store = InitialStore
    /\ nextID = FirstFreeID
    /\ pc = [p \in Procs |-> "idle"]
    /\ frame = [p \in Procs |-> NoFrame]
    /\ ret = [p \in Procs |-> NoRet]
    /\ calls = [p \in Procs |-> << >>]
    /\ callOrder = << >>
    /\ opsStarted = 0
    /\ rt = RTOff

\* ------------------------------------------------------------- operations
\* What callers ask for: an operation, a zone and (but for GetRecords) records.
Requests ==
    {[kind |-> "GetRecords", zone |-> z, records |-> << >>] : z \in Zones}
    \cup {[kind |-> k, zone |-> z, records |-> r] :
             k \in BatchKinds, z \in Zones, r \in Batches}

\* A caller invokes one of the four operations on the Provider.
Call(p, requests) ==
    /\ pc[p] = "idle"
    /\ opsStarted < MaxOps
    /\ \E rq \in requests :
          frame' = [frame EXCEPT ![p] =
                [NoFrame EXCEPT !.opNo = opsStarted + 1, !.kind = rq.kind,
                                !.zone = rq.zone, !.records = rq.records]]
    /\ opsStarted' = opsStarted + 1
    /\ pc' = [pc EXCEPT ![p] = "lock"]
    /\ UNCHANGED <<rev, mutex, once, clientInits, store, nextID, ret, calls,
                   callOrder, rt>>

Invoke(p) == Call(p, Requests)

\* Mutant: Lock returns whether or not the mutex is held.
MutexFreeAlways(m) == TRUE

\* sync.Mutex.Lock can return only when the mutex is free.
MutexFree(m) == m = 0

\* provider.go:26, 52, 77, 113: p.mutex.Lock()
Lock(p) ==
    /\ pc[p] = "lock"
    /\ MutexFree(mutex)
    /\ mutex' = p
    /\ frame' = [frame EXCEPT ![p].store0 = store]
    /\ pc' = [pc EXCEPT ![p] = "init"]
    /\ UNCHANGED <<rev, once, clientInits, store, nextID, ret, calls, callOrder,
                   opsStarted, rt>>

\* Mutant: init builds the client on every call, with no once-guard.
OnceRunsAlways(o) == TRUE

\* sync.Once.Do runs its function only while the Once is not done.
OnceRuns(o) == o = "new"

\* client.go:15-16: p.init enters p.once.Do.
InitEnter(p) ==
    /\ pc[p] = "init"
    /\ once # "running"
    /\ IF OnceRuns(once)
       THEN /\ once' = "running"
            /\ pc' = [pc EXCEPT ![p] = "initrun"]
       ELSE /\ once' = once
            /\ pc' = [pc EXCEPT ![p] = "resolve"]
    /\ UNCHANGED <<rev, mutex, clientInits, store, nextID, frame, ret, calls,
                   callOrder, opsStarted, rt>>

\* client.go:17-27: the once-function builds and configures p.client.
InitRun(p) ==
    /\ pc[p] = "initrun"
    /\ clientInits' = clientInits + 1
    /\ once' = "done"
    /\ pc' = [pc EXCEPT ![p] = "resolve"]
    /\ UNCHANGED <<rev, mutex, store, nextID, frame, ret, calls, callOrder,
                   opsStarted, rt>>

\* Mutant: the error of getDomainIDByZone is dropped and the operation goes on
\* with the domain ID it was given.
AfterResolveIgnoringErr(p, err, domainID) ==
    /\ frame' = [frame EXCEPT
          ![p].domainID = domainID,
          ![p].idx = 1,
          ![p].out = IF frame[p].kind = "DeleteRecords"
                     THEN makeDeletedRecords(rev, frame[p].records)
                     ELSE << >>]
    /\ pc' = [pc EXCEPT ![p] = "body"]
    /\ ret' = ret

\* provider.go:31-34, 57-62, 82-87, 118-123: what the operation does with
\* getDomainIDByZone's result: return nil and the error, or make its result
\* list and start its loop.
AfterResolve(p, err, domainID) ==
    IF err # NoErr
    THEN /\ ReturnErr(p, err)
         /\ frame' = frame
    ELSE /\ frame' = [frame EXCEPT
               ![p].domainID = domainID,
               ![p].idx = 1,
               ![p].out = IF frame[p].kind = "DeleteRecords"
                          THEN makeDeletedRecords(rev, frame[p].records)
                          ELSE << >>]
         /\ pc' = [pc EXCEPT ![p] = "body"]
         /\ ret' = ret

\* client.go:35-51: one turn of getDomainIDByZone's loop over the pages.  The
\* loop starts at page 1 (NewListOptions(1, "")); ListDomains returns the
\* page asked for and sets listOptions.Pages to the number of pages.
getDomainIDByZone(p) ==
    /\ pc[p] = "resolve"
    /\ rev = 1
    /\ \E fail \in BOOLEAN :
          LET page == IF frame[p].page = 0 THEN 1 ELSE frame[p].page
              m == scanDomains(DomainsPage(page), trimTrailingDot(frame[p].zone))
          IN  /\ Logged(p, 0, [kind |-> "ListDomains", id |-> page, ok |-> ~fail])
              /\ IF fail THEN
                    AfterResolve(p, ErrListDomains, 0)
                 ELSE IF m.found THEN
                    AfterResolve(p, NoErr, m.id)
                 ELSE IF LoopContinues(page + 1, TotalPages) THEN
                    /\ frame' = [frame EXCEPT ![p].page = page + 1,
                                              ![p].pages = TotalPages]
                    /\ UNCHANGED <<pc, ret>>
                 ELSE
                    AfterResolve(p, ErrDomainNotFound, 0)
    /\ UNCHANGED <<rev, mutex, once, clientInits, store, nextID, opsStarted, rt>>

\* client.go:150-166: getDomainIDByZone by one filtered ListDomains.
getDomainIDByZoneFiltered(p) ==
    /\ pc[p] = "resolve"
    /\ rev = 2
    /\ \E fail \in BOOLEAN :
          LET domains == FilteredDomains(frame[p].zone)
          IN  /\ Logged(p, 0, [kind |-> "ListDomains", id |-> 0, ok |-> ~fail])
              /\ IF fail THEN
                    AfterResolve(p, ErrListDomains, 0)
                 ELSE IF Len(domains) = 0 THEN
                    AfterResolve(p, ErrDomainNotFound, 0)
                 ELSE
                    AfterResolve(p, NoErr, domains[1].ID)
    /\ UNCHANGED <<rev, mutex, once, clientInits, store, nextID, opsStarted, rt>>

\* The records of a domain translated, as GetRecords returns them.
RECURSIVE listDomainRecords(_, _)
listDomainRecords(zone, linodeRecords) ==
    IF linodeRecords = << >> THEN << >>
    ELSE <<convertToLibdns(zone, Head(linodeRecords))>>
            \o listDomainRecords(zone, Tail(linodeRecords))

RECURSIVE appendAll(_, _, _)
appendAll(zone, records, linodeRecords) ==
    IF linodeRecords = << >> THEN records
    ELSE appendAll(zone, appendRecord(zone, records, Head(linodeRecords)),
                   Tail(linodeRecords))

\* provider.go:36-47 (revision 2: client.go:282-286)
GetRecords(p) ==
    /\ pc[p] = "body"
    /\ frame[p].kind = "GetRecords"
    /\ \E fail \in BOOLEAN :
          /\ Logged(p, 0, [kind |-> "ListDomainRecords", id |-> 0, ok |-> ~fail])
          /\ IF fail THEN ReturnErr(p, ErrListRecords)
             ELSE ReturnOk(p, IF rev = 1
                              THEN appendAll(frame[p].zone, << >>,
                                             store[frame[p].domainID])
                              ELSE listDomainRecords(frame[p].zone,
                                                     store[frame[p].domainID]))
    /\ UNCHANGED <<rev, mutex, once, clientInits, store, nextID, frame,
                   opsStarted, rt>>

\* Mutant: the loop ignores the error of its step and goes on.
AbortsNever(err) == FALSE

\* provider.go:65-67, 93-95, 102-104, 127-129: a loop returns on the first
\* error of its step.
Aborts(err) == err # NoErr

\* Mutant: a failed step undoes what the operation had applied before it.
IterateRollback(p, o) ==
    /\ store' = IF o.err # NoErr THEN frame[p].store0 ELSE o.store
    /\ nextID' = o.nextID
    /\ Logged(p, frame[p].idx, o.call)
    /\ IF Aborts(o.err)
       THEN /\ ReturnErr(p, o.err)
            /\ frame' = frame
       ELSE /\ frame' = [frame EXCEPT ![p].idx = @ + 1,
                                       ![p].out = Append(@, o.rec)]
            /\ UNCHANGED <<pc, ret>>
    /\ UNCHANGED <<rev, mutex, once, clientInits, opsStarted, rt>>

\* The part the three batch loops share: the step's outcome o is applied,
\* and the loop returns nil and the error, or appends and goes on.
Iterate(p, o) ==
    /\ store' = o.store
    /\ nextID' = o.nextID
    /\ Logged(p, frame[p].idx, o.call)
    /\ IF Aborts(o.err)
       THEN /\ ReturnErr(p, o.err)
            /\ frame' = frame
       ELSE /\ frame' = [frame EXCEPT ![p].idx = @ + 1,
                                       ![p].out = Append(@, o.rec)]
            /\ UNCHANGED <<pc, ret>>
    /\ UNCHANGED <<rev, mutex, once, clientInits, opsStarted, rt>>

InLoop(p, kind) ==
    /\ pc[p] = "body"
    /\ frame[p].kind = kind
    /\ frame[p].idx <= Len(frame[p].records)

\* provider.go:63-69 (revision 2: client.go:299-305)
AppendRecords(p) ==
    /\ InLoop(p, "AppendRecords")
    /\ \E fail \in BOOLEAN :
          Iterate(p, createDomainRecord(store, nextID, frame[p].zone,
                        frame[p].domainID, frame[p].records[frame[p].idx], fail))

\* provider.go:89-106 (revision 2: client.go:320-326)
SetRecords(p) ==
    /\ InLoop(p, "SetRecords")
    /\ \E fail \in BOOLEAN :
          Iterate(p, IF rev = 1
                     THEN SetRecordsIter(store, nextID, frame[p].zone,
                             frame[p].domainID, frame[p].records[frame[p].idx], fail)
                     ELSE createOrUpdateDomainRecord(store, nextID, frame[p].zone,
                             frame[p].domainID, frame[p].records[frame[p].idx], fail))

\* provider.go:125-132 (revision 2: client.go:340-346)
DeleteRecords(p) ==
    /\ InLoop(p, "DeleteRecords")
    /\ \E fail \in BOOLEAN :
          Iterate(p, deleteDomainRecord(store, nextID, frame[p].domainID,
                        frame[p].records[frame[p].idx], fail))

\* provider.go:71, 108, 134: the loop is over, the result list is returned.
LoopExit(p) ==
    /\ pc[p] = "body"
    /\ frame[p].kind # "GetRecords"
    /\ frame[p].idx > Len(frame[p].records)
    /\ ReturnOk(p, frame[p].out)
    /\ UNCHANGED <<rev, mutex, once, clientInits, store, nextID, frame, calls,
                   callOrder, opsStarted, rt>>

\* Mutant: Unlock is called on the success path only.
MutexKeptOnError(m, err) == IF err = NoErr THEN 0 ELSE m

\* provider.go:27, 53, 78, 114: the deferred Unlock runs on every return.
MutexAfterReturn(m, err) == 0

\* provider.go:27, 53, 78, 114: the deferred p.mutex.Unlock(); the caller has
\* the result.
Unlock(p) ==
    /\ pc[p] = "unlock"
    /\ mutex' = MutexAfterReturn(mutex, ret[p].err)
    /\ pc' = [pc EXCEPT ![p] = "idle"]
    /\ frame' = [frame EXCEPT ![p] = NoFrame]
    /\ ret' = [ret EXCEPT ![p] = NoRet]
    /\ calls' = [calls EXCEPT ![p] = << >>]
    /\ UNCHANGED <<rev, once, clientInits, store, nextID, callOrder, opsStarted, rt>>

Step(p) ==
    \/ Invoke(p)
    \/ Lock(p)
    \/ InitEnter(p)
    \/ InitRun(p)
    \/ getDomainIDByZone(p)
    \/ getDomainIDByZoneFiltered(p)
    \/ GetRecords(p)
    \/ AppendRecords(p)
    \/ SetRecords(p)
    \/ DeleteRecords(p)
    \/ LoopExit(p)
    \/ Unlock(p)

Next == \E p \in Procs : Step(p)

Spec == Init /\ [][Next]_vars


\* Fairness: a goroutine that can take a step of its operation takes it
\* (every remote call returns), and sync.Mutex hands the lock to a goroutine
\* that keeps waiting for it (its starvation mode).  Callers need not invoke.
Run(p) ==
    \/ InitEnter(p)
    \/ InitRun(p)
    \/ getDomainIDByZone(p)
    \/ getDomainIDByZoneFiltered(p)
    \/ GetRecords(p)
    \/ AppendRecords(p)
    \/ SetRecords(p)
    \/ DeleteRecords(p)
    \/ LoopExit(p)
    \/ Unlock(p)

\* The requests of the specification with fairness: each operation, and each
\* way out of one (success, unresolved zone, failed remote call, invalid ID).
LiveRequests ==
    {[kind |-> "GetRecords", zone |-> S_ab \o <<".">>, records |-> << >>],
     [kind |-> "GetRecords", zone |-> S_xy \o <<".">>, records |-> << >>],
     [kind |-> "AppendRecords", zone |-> S_cd, records |-> <<rNew, rOne>>],
     [kind |-> "SetRecords", zone |-> S_ab \o <<".">>, records |-> <<rOne, rBad>>],
     [kind |-> "DeleteRecords", zone |-> S_ab \o <<".">>, records |-> <<rOne>>]}

InvokeLive(p) == Call(p, LiveRequests)

NextLive == \E p \in Procs : InvokeLive(p) \/ Lock(p) \/ Run(p)

FairSpec ==
    /\ Init
    /\ [][NextLive]_vars
    /\ \A p \in Procs : WF_vars(Run(p)) /\ SF_vars(Lock(p))

\* ------------------------------------------------ translator round trip
\* Remote records and zones the round trip is tried on.  The names include
\* absolute ones, one with a trailing dot, and one that still ends in the
\* zone's name once made relative to it.
RTZones == {S_ab, S_ab \o <<".">>}

RTNames ==
    {<< >>, S_w, S_w \o <<".">> \o S_ab, S_w \o <<".">> \o S_ab \o <<".">>,
     S_w \o <<".">> \o S_ab \o <<".">> \o S_ab}

RTRecords ==
    [ID : {0, 1, 12, 305}, Type : {"A", "TXT"}, Name : RTNames,
     Target : {"", "v"}, TTLSec : {0, 1, 2}]

InitRT ==
    /\ rev \in {1, 2}
    /\ mutex = 0
    /\ once = "new"
    /\ clientInits = 0
    /\ store = InitialStore
    /\ nextID = FirstFreeID
    /\ pc = [p \in Procs |-> "idle"]
    /\ frame = [p \in Procs |-> NoFrame]
    /\ ret = [p \in Procs |-> NoRet]
    /\ calls = [p \in Procs |-> << >>]
    /\ callOrder = << >>
    /\ opsStarted = 0
    /\ \E z \in RTZones, r \in RTRecords :
          rt = [stage |-> "remote", zone |-> z, remote |-> r,
                generic |-> ZeroRecord, recordID |-> Atoi(<< >>),
                opts |-> RecordOptions(z, ZeroRecord)]

\* client.go:106-120: the remote record becomes a libdns.Record.
RTConvert ==
    /\ rt.stage = "remote"
    /\ rt' = [rt EXCEPT !.stage = "generic",
                        !.generic = convertToLibdns(rt.zone, rt.remote)]
    /\ UNCHANGED <<rev, mutex, once, clientInits, store, nextID, pc, frame, ret,
                   calls, callOrder, opsStarted>>

\* client.go:82-91: updateDomainRecord's ID and options from that record.
RTUpdateOptions ==
    /\ rt.stage = "generic"
    /\ rt' = [rt EXCEPT !.stage = "update",
                        !.recordID = Atoi(rt.generic.ID),
                        !.opts = RecordOptions(rt.zone, rt.generic)]
    /\ UNCHANGED <<rev, mutex, once, clientInits, store, nextID, pc, frame, ret,
                   calls, callOrder, opsStarted>>

NextRT == RTConvert \/ RTUpdateOptions

SpecRT == InitRT /\ [][NextRT]_vars

\* ----------------------------------------------------------------- claims
InOperation == {"init", "initrun", "resolve", "body", "unlock"}

\* The positions in p's history of the steps taken for input record i.
StepsFor(p, i) == {k \in 1..Len(calls[p]) : calls[p][k].idx = i}

\* The zone's name without one trailing dot.
StripDot(zone) ==
    IF zone # << >> /\ zone[Len(zone)] = "." THEN SubSeq(zone, 1, Len(zone) - 1)
    ELSE zone

\* The positions, in the API's order, of the domains named like the zone.
Matches(zone) == {i \in 1..Len(Domains) : Domains[i].Domain = StripDot(zone)}

Min(S) == CHOOSE x \in S : \A y \in S : x <= y

\* p's operation could not resolve its zone: a ListDomains call failed, or no
\* remote domain has the zone's name.
Unresolved(p) ==
    \/ \E k \in 1..Len(calls[p]) :
          calls[p][k].kind = "ListDomains" /\ ~calls[p][k].ok
    \/ Matches(frame[p].zone) = {}

\* C1: at most one operation is between Lock and Unlock, it is the holder of
\* the mutex, every remote call was issued by a goroutine holding the mutex,
\* and the remote calls of one operation are not interleaved with another's
\* (no operation occurs twice in the order of calls).
C1_MutualExclusion ==
    /\ Cardinality({p \in Procs : pc[p] \in InOperation}) <= 1
    /\ \A p \in Procs : pc[p] \in InOperation => mutex = p
    /\ \A p \in Procs : \A k \in 1..Len(calls[p]) :
          calls[p][k].kind \in RemoteKinds => calls[p][k].locked
    /\ \A i, j \in 1..Len(callOrder) : callOrder[i] = callOrder[j] => i = j

\* C1 witness: an operation has issued remote calls while the other goroutine
\* waits for the mutex.
C1_Witness ==
    \E p, q \in Procs :
        /\ p # q
        /\ pc[p] = "body" /\ Len(calls[p]) > 0
        /\ pc[q] = "lock"

\* C2: the client is built at most once, exactly once before any operation
\* gets past init, no remote call is issued before it is built, and a later
\* operation does not build it again.
C2_InitOnce ==
    /\ clientInits <= 1
    /\ (once = "done") <=> (clientInits = 1)
    /\ \A p \in Procs :
          /\ pc[p] \in {"resolve", "body", "unlock"} => once = "done"
          /\ \A k \in 1..Len(calls[p]) :
                calls[p][k].kind \in RemoteKinds => calls[p][k].ready

\* C2 witness: the second operation issues remote calls with the client built
\* once.
C2_Witness ==
    \E p \in Procs :
        /\ frame[p].opNo = 2
        /\ pc[p] = "body"
        /\ clientInits = 1

\* C3: DeleteRecords, when the zone resolves and every delete succeeds,
\* returns the input records: the same length, the i-th element the i-th input.
C3_DeleteReturnsInput ==
    \A p \in Procs :
        (pc[p] = "unlock" /\ frame[p].kind = "DeleteRecords" /\ ret[p].err = NoErr)
            => ret[p].list = frame[p].records

\* C4: in AppendRecords, SetRecords and DeleteRecords the k-th step taken for
\* the records is the one for record k, with one step (at most one remote
\* call) per record; a failed step is the last thing the operation does, and
\* the operation then returns an error and a nil list.
C4_FailFast ==
    \A p \in Procs : frame[p].kind \in BatchKinds =>
        /\ \A i \in 1..Len(frame[p].records) : Cardinality(StepsFor(p, i)) <= 1
        /\ \A k, l \in 1..Len(calls[p]) :
              (k < l /\ calls[p][k].idx > 0) =>
                  calls[p][l].idx = calls[p][k].idx + (l - k)
        /\ \A k \in 1..Len(calls[p]) :
              (calls[p][k].idx > 0 /\ ~calls[p][k].ok) =>
                  /\ k = Len(calls[p])
                  /\ pc[p] = "unlock"
                  /\ ret[p].err # NoErr
                  /\ ret[p].isNil

\* C4 witness: a batch failed at a record that is not its last.
C4_Witness ==
    \E p \in Procs :
        /\ pc[p] = "unlock"
        /\ frame[p].kind \in BatchKinds
        /\ ret[p].err # NoErr
        /\ frame[p].idx >= 1
        /\ frame[p].idx < Len(frame[p].records)

\* C5: when SetRecords fails at record i, it returns an error and no records,
\* and what it wrote for the records before i is in the remote store as
\* written (unless a later record before i wrote the same remote record), so
\* that listing the zone shows it.
C5_NoRollback ==
    \A p \in Procs :
        (pc[p] = "unlock" /\ frame[p].kind = "SetRecords" /\ ret[p].err # NoErr
            /\ frame[p].idx >= 1)
        => /\ ret[p].isNil
           /\ \A k \in 1..(frame[p].idx - 1) :
                 LET written == frame[p].out[k]
                     remote == store[frame[p].domainID]
                     listed == listDomainRecords(frame[p].zone, remote)
                 IN  (\A l \in (k + 1)..(frame[p].idx - 1) :
                          frame[p].out[l].ID # written.ID)
                     => /\ \E n \in 1..Len(remote) :
                              /\ Itoa(remote[n].ID) = written.ID
                              /\ remote[n] =
                                    RemoteRecord(remote[n].ID,
                                        RecordOptions(frame[p].zone, frame[p].records[k]))
                        /\ \E n \in 1..Len(listed) : listed[n] = written

\* C5 witness: SetRecords failed at its second record, the first applied.
C5_Witness ==
    \E p \in Procs :
        /\ pc[p] = "unlock"
        /\ frame[p].kind = "SetRecords"
        /\ ret[p].err # NoErr
        /\ frame[p].idx = 2

\* A decimal number as strconv.Atoi reads it: an optional sign, then digits.
IsDecimal(s) ==
    LET body == IF s # << >> /\ Head(s) \in {"+", "-"} THEN Tail(s) ELSE s
    IN  body # << >> /\ \A i \in 1..Len(body) : IsDigit(body[i])

\* The number such a string denotes.
DecimalValue(s) ==
    IF Head(s) = "-" THEN -UVal(Tail(s), 0)
    ELSE IF Head(s) = "+" THEN UVal(Tail(s), 0)
    ELSE UVal(s, 0)

\* The records of p's SetRecords whose step has been taken.
Processed(p) ==
    IF pc[p] = "unlock" /\ ret[p].err # NoErr
    THEN 1..frame[p].idx
    ELSE 1..(frame[p].idx - 1)

\* C6: SetRecords takes one step per record: a create call for an empty ID; an
\* update call for that number for a numeric ID; for any other ID no remote
\* call, the operation failing with the parse error.
C6_SetDispatch ==
    \A p \in Procs :
        (frame[p].kind = "SetRecords" /\ pc[p] \in {"body", "unlock"}) =>
            \A i \in Processed(p) :
                LET id == frame[p].records[i].ID
                IN  /\ Cardinality(StepsFor(p, i)) = 1
                    /\ \A k \in StepsFor(p, i) :
                          /\ id = << >> => calls[p][k].kind = "Create"
                          /\ (id # << >> /\ IsDecimal(id)) =>
                                /\ calls[p][k].kind = "Update"
                                /\ calls[p][k].id = DecimalValue(id)
                          /\ (id # << >> /\ ~IsDecimal(id)) =>
                                /\ calls[p][k].kind \notin RemoteKinds
                                /\ pc[p] = "unlock"
                                /\ ret[p].err = ErrAtoi
                                /\ ret[p].isNil

\* C6 witness: SetRecords has created for the record without ID and updated
\* for the record with ID "01".
C6_Witness ==
    \E p \in Procs :
        /\ pc[p] = "unlock"
        /\ frame[p].kind = "SetRecords"
        /\ frame[p].records = <<rNew, rOne>>
        /\ ret[p].err = NoErr

\* C7: an operation whose zone does not resolve returns an error and a nil
\* list, has issued no record-level remote call, and has left the remote
\* record store as it found it.
C7_UnresolvedZoneAborts ==
    \A p \in Procs :
        (pc[p] \in {"body", "unlock"} /\ Unresolved(p)) =>
            /\ pc[p] = "unlock"
            /\ ret[p].err \in {ErrListDomains, ErrDomainNotFound}
            /\ ret[p].isNil
            /\ \A k \in 1..Len(calls[p]) : calls[p][k].kind \notin RecordCallKinds
            /\ store = frame[p].store0

\* C7 witness: SetRecords on a zone no remote domain is named like.
C7_Witness ==
    \E p \in Procs :
        /\ pc[p] = "unlock"
        /\ frame[p].kind = "SetRecords"
        /\ ret[p].err = ErrDomainNotFound

\* C8: a resolved zone has the ID of the first domain, in the API's order over
\* all pages, named like the zone without its trailing dot; the not-found
\* error is returned only when no domain is named so.
C8_ResolveComplete ==
    \A p \in Procs : pc[p] \in {"body", "unlock"} =>
        /\ frame[p].idx >= 1 =>
              /\ Matches(frame[p].zone) # {}
              /\ frame[p].domainID = Domains[Min(Matches(frame[p].zone))].ID
        /\ ret[p].err = ErrDomainNotFound => Matches(frame[p].zone) = {}
        /\ ~Unresolved(p) => frame[p].idx >= 1

\* C8 witness: the paged lookup found the zone on the second page, where two
\* domains have its name.
C8_Witness ==
    \E p \in Procs :
        /\ rev = 1
        /\ pc[p] = "body"
        /\ frame[p].page = 2
        /\ frame[p].domainID = 42
        /\ Cardinality(Matches(frame[p].zone)) = 2

\* C9: the update request built from the translation of a remote record has
\* the record's type, target, TTL in seconds and numeric ID, and as name the
\* record's name relative to the zone.
C9_RoundTrip ==
    rt.stage = "update" =>
        /\ rt.opts.Type = rt.remote.Type
        /\ rt.opts.Target = rt.remote.Target
        /\ rt.opts.TTLSec = rt.remote.TTLSec
        /\ rt.recordID.ok
        /\ rt.recordID.val = rt.remote.ID
        /\ rt.opts.Name = RelativeName(rt.remote.Name, rt.zone)

\* C10: a goroutine outside its operation does not hold the mutex (every
\* return releases it), and every operation that has been invoked returns.
C10_LockReleaseProgress ==
    /\ [](\A p \in Procs : pc[p] \in {"idle", "lock"} => mutex # p)
    /\ \A p \in Procs : (pc[p] = "lock") ~> (pc[p] = "idle")

\* C10 witness: two operations have made remote calls, both have returned and
\* the mutex is free.
C10_Witness ==
    /\ Len(callOrder) = 2
    /\ \A p \in Procs : pc[p] = "idle"
    /\ mutex = 0

====
